---- MODULE Spec2Model ----
(***************************************************************************)
(* pytail.py: the static tail print of main and the follow engine          *)
(* (follow_files starts one daemon thread per printed file, each running   *)
(* follow_file).  File contents are sequences of characters; the file      *)
(* system is changed by an external environment between the program's own  *)
(* steps.  Every write call on standard output or standard error is one    *)
(* event; `written` keeps each thread's events in the order it made them   *)
(* and `stdout_last` is the latest event on standard output.               *)
(***************************************************************************)
EXTENDS Integers, Sequences, FiniteSets, TLC

\* ------------------------------------------------------------------ bounds
MaxLen == 2        \* longest file content, in characters
MaxEnv == 2        \* number of external changes to the file system in a run

\* --------------------------------------------------------------- constants
ERROR == 1
KEYBOARD_INTERRUPT == 130
DefaultLines == 10

NL == "\n"
Chars == {"a", NL}
Files == {1, 2}
Slots == 1..Cardinality(Files)
ArgFiles == {<<1>>, <<1, 2>>}
Contents == UNION {[1..n -> Chars] : n \in 0..MaxLen}

\* What open()/read() of a path raises, by the state of the path: "missing"
\* FileNotFoundError, "denied" PermissionError, "isdir" IsADirectoryError,
\* "ioerror" another OSError while reading, "undecodable" UnicodeDecodeError.
FailStatuses == {"missing", "denied", "isdir", "ioerror", "undecodable"}
InitialContent == <<"a">>
Unbound == <<"unbound">>
NoCause == "none"

VARIABLES
    args,              \* Program.args: files, no_file_header, follow
    fs,                \* the file system: path -> [st, data]
    env_steps,         \* external changes made so far
    mainpc,            \* position of the main thread
    idx,               \* index of the loop main is in
    files_printed,     \* main's files_printed
    print_file_name,   \* follow_files' print_file_name
    pc,                \* position of each follow_file thread
    previous_content,  \* follow_file's local, per thread
    next_content,      \* follow_file's local, per thread
    print_index,       \* follow_file's local, per thread
    has_errors,        \* Program.has_errors
    written,           \* the write calls each thread has made, in order (0: main)
    stdout_last,       \* the latest write call on standard output
    exit_code,         \* the process's exit status, -1 while it runs
    h_prev,            \* history: previous_content at the thread's last poll read
    h_run,             \* history: the thread's initial snapshot, and whether every
                       \* change it has observed so far was an append
    h_mark,            \* history: Len(written[k]) at the thread's last poll read
    h_cause,           \* history: the path state that made the thread's read fail
    h_after,           \* history: the thread's last poll read came after another
                       \* thread had finished
    h_touched,         \* history: the paths other processes have changed
    h_file,            \* history: what other processes did to the thread's file
                       \* since the thread's snapshot: "same", "changed", or
                       \* "restored" when the thread's last poll read the
                       \* stored content again after changes
    h_slept,           \* history: the thread has slept since its last snapshot
    file_open          \* the thread holds an open handle on its file

vars == <<args, fs, env_steps, mainpc, idx, files_printed, print_file_name, pc,
          previous_content, next_content, print_index, has_errors, written,
          stdout_last, exit_code, h_prev, h_mark, h_run, h_cause, h_after, h_touched,
          h_file, h_slept, file_open>>

mainVars == <<mainpc, idx, files_printed, print_file_name, exit_code>>
outVars == <<written, stdout_last>>
threadVars == <<pc, previous_content, next_content, print_index, h_prev, h_mark, h_run,
                h_cause, h_after, h_slept, file_open>>

\* ----------------------------------------------------------- pure helpers
\* str.startswith
StartsWith(s, p) == Len(p) <= Len(s) /\ SubSeq(s, 1, Len(p)) = p

\* Faulty variant: the slice starts one character early.
SliceOneEarly(s, i) == SubSeq(s, IF i = 0 THEN 1 ELSE i, Len(s))

\* s[i:]
Slice(s, i) == SubSeq(s, i + 1, Len(s))

\* TextIO.readlines: the lines of s, each with its newline
RECURSIVE readlines(_)
readlines(s) ==
    IF s = <<>> THEN <<>>
    ELSE LET nls == {i \in 1..Len(s) : s[i] = NL}
         IN IF nls = {} THEN <<s>>
            ELSE LET i == CHOOSE j \in nls : \A m \in nls : j <= m
                 IN <<SubSeq(s, 1, i)>> \o readlines(SubSeq(s, i + 1, Len(s)))

\* print_lines(lines, has_newlines=True): the text it writes
RECURSIVE JoinFrom(_, _)
JoinFrom(lines, n) ==
    IF n > Len(lines) THEN <<>> ELSE lines[n] \o JoinFrom(lines, n + 1)

print_lines(lines) ==
    LET lines_to_print == DefaultLines
        skip_to_line == IF lines_to_print < 0 THEN -lines_to_print
                        ELSE Len(lines) - lines_to_print
    IN JoinFrom(lines, IF skip_to_line < 0 THEN 1 ELSE skip_to_line + 1)

Event(ch, by, f, kind, text) ==
    [ch |-> ch, by |-> by, file |-> f, kind |-> kind, text |-> text]

\* print_error_message's write
ErrorEvent(by, f, kind) == Event("stderr", by, f, kind, <<>>)

\* Faulty variant: the test of --no-file-header is missing.
HeaderEventsAlways(by, f) ==
    <<Event("stdout", by, f, IF args.follow THEN "header (following)" ELSE "header", <<>>)>>

\* print_file_header's writes: none under --no-file-header
HeaderEvents(by, f) ==
    IF args.no_file_header THEN <<>>
    ELSE <<Event("stdout", by, f, IF args.follow THEN "header (following)" ELSE "header", <<>>)>>

IsStdout(e) == e.ch = "stdout"
NoEvent == Event("stdout", 0, 0, "none", <<>>)

\* Thread k makes the write calls evs, in order.
Write(k, evs) ==
    /\ written' = [written EXCEPT ![k] = @ \o evs]
    /\ stdout_last' = LET so == SelectSeq(evs, IsStdout)
                      IN IF so = <<>> THEN stdout_last ELSE so[Len(so)]

Alive == mainpc # "exited"

\* Faulty variant: every thread is handed the last file of the list.
file_nameShared(k) == files_printed[Len(files_printed)]

\* Line 108: the k-th thread is started with args=(file, print_file_name),
\* file being the k-th element of files.
file_name(k) == files_printed[k]

\* ------------------------------------------------------------------- Init
\* The program is run with --follow on one or two readable files, with or
\* without --no-file-header, standard input being a terminal.
StartWith(content) ==
    /\ args \in [files : ArgFiles, no_file_header : BOOLEAN, follow : {TRUE}]
    /\ fs = [f \in Files |-> [st |-> "ok", data |-> content]]
    /\ env_steps = 0
    /\ h_touched = {}
    /\ mainpc = "print"
    /\ idx = 1
    /\ files_printed = <<>>
    /\ print_file_name = FALSE
    /\ pc = [k \in Slots |-> "unstarted"]
    /\ previous_content = [k \in Slots |-> Unbound]
    /\ next_content = [k \in Slots |-> Unbound]
    /\ print_index = [k \in Slots |-> 0]
    /\ has_errors = FALSE
    /\ written = [k \in {0} \cup Slots |-> <<>>]
    /\ stdout_last = NoEvent
    /\ exit_code = -1
    /\ h_prev = [k \in Slots |-> Unbound]
    /\ h_mark = [k \in Slots |-> 0]
    /\ h_run = [k \in Slots |-> [init |-> Unbound, clean |-> TRUE]]
    /\ h_cause = [k \in Slots |-> NoCause]
    /\ h_after = [k \in Slots |-> FALSE]
    /\ h_slept = [k \in Slots |-> FALSE]
    /\ h_file = [k \in Slots |-> "same"]
    /\ file_open = [k \in Slots |-> FALSE]

Init == StartWith(InitialContent)

\* The run without --no-file-header.
InitWithHeaders == Init /\ ~args.no_file_header

\* The same run on files that are empty at the start.
InitEmptyFiles == StartWith(<<>>)

\* ------------------------------------------------------------ environment
\* Another process writes the file (append, truncation, rewrite, re-creation).
\* History: f has changed under every thread that holds a snapshot of it.
ChangedFor(f) ==
    [k \in Slots |->
        IF /\ k <= Len(files_printed) /\ files_printed[k] = f
           /\ pc[k] \in {"l71", "l81", "l83", "l86", "l88", "l91"}
        THEN "changed" ELSE h_file[k]]

ExternalWrite(f, c) ==
    /\ Alive
    /\ env_steps < MaxEnv
    /\ fs[f] # [st |-> "ok", data |-> c]
    /\ fs' = [fs EXCEPT ![f] = [st |-> "ok", data |-> c]]
    /\ env_steps' = env_steps + 1
    /\ h_touched' = h_touched \cup {f}
    /\ h_file' = ChangedFor(f)
    /\ UNCHANGED <<args, mainVars, threadVars, has_errors, outVars>>

\* Another process deletes the file, removes its permissions, replaces it by a
\* directory, the device fails, or the bytes stop being decodable.
ExternalBreak(f, s) ==
    /\ Alive
    /\ env_steps < MaxEnv
    /\ fs[f].st # s
    /\ fs' = [fs EXCEPT ![f] = [st |-> s, data |-> <<>>]]
    /\ env_steps' = env_steps + 1
    /\ h_touched' = h_touched \cup {f}
    /\ h_file' = ChangedFor(f)
    /\ UNCHANGED <<args, mainVars, threadVars, has_errors, outVars>>

\* ------------------------------------------------------------ follow_file
\* Faulty variant: the second clause catches OSError only.
ExceptHandlerNoDecode(st) ==
    CASE st = "missing" -> "l93"
      [] st \in {"denied", "isdir", "ioerror"} -> "l95"
      [] OTHER -> "raised"

\* The except clause of follow_file that catches what a read of a path in
\* state st raises: "l93" (FileNotFoundError), "l95" (OSError,
\* UnicodeDecodeError), "raised" when no clause matches.
ExceptHandler(st) ==
    CASE st = "missing" -> "l93"
      [] st \in {"denied", "isdir", "ioerror"} -> "l95"
      [] st = "undecodable" -> "l95"
      [] OTHER -> "raised"

\* Faulty variant: print_index is never advanced.
PrintIndexZero(P, N) == 0

\* Faulty variant: print_index is the old length whenever the new content has it.
PrintIndexOld(P, N) == IF Len(P) <= Len(N) THEN Len(P) ELSE Len(N)

\* Lines 76-79: the index the payload is printed from.
PrintIndex(P, N) == IF StartsWith(N, P) THEN Len(P) ELSE 0

\* Lines 85-88: the statement after the change has been classified.
HeaderOrPayload == IF print_file_name THEN "l86" ELSE "l88"

\* Faulty variant: the test of line 75 is missing.
AfterCompareAlways(P, N) ==
    IF StartsWith(N, P) THEN HeaderOrPayload
    ELSE IF Len(N) < Len(P) THEN "l81"
    ELSE "l83"

\* Faulty variant: truncation is taken to mean "the new content is a prefix".
AfterComparePrefix(P, N) ==
    IF P # N
    THEN IF StartsWith(N, P) THEN HeaderOrPayload
         ELSE IF StartsWith(P, N) THEN "l81"
         ELSE "l83"
    ELSE "l91"

\* Faulty variant: line 80 compares with <=.
AfterCompareLeq(P, N) ==
    IF P # N
    THEN IF StartsWith(N, P) THEN HeaderOrPayload
         ELSE IF Len(N) <= Len(P) THEN "l81"
         ELSE "l83"
    ELSE "l91"

\* Lines 75-83: the statement the thread goes to after comparing.
AfterCompare(P, N) ==
    IF P # N
    THEN IF StartsWith(N, P) THEN HeaderOrPayload
         ELSE IF Len(N) < Len(P) THEN "l81"
         ELSE "l83"
    ELSE "l91"

\* Faulty variant: the handlers sit inside the loop and the loop goes on.
AfterHandlerContinue == "l71"

\* Faulty variant: the thread follows its file anew after the handler.
AfterHandlerRestart == "l65"

\* Where a thread goes when its handler has printed: follow_file returns.
AfterHandler == "done"

\* Faulty variant: previous_content starts empty.
FirstSnapshotEmpty(data) == <<>>

\* Line 66: previous_content = file.read()
FirstSnapshot(data) == data

\* Faulty variant: the assignment of line 187 is missing.
SetHasErrorsKeep == has_errors

\* Line 187: Program.has_errors = True, a plain assignment.
SetHasErrors == TRUE

\* Faulty variant: the threads take turns, a read waits while another thread
\* is in its own open/read.
CanReadSerial(k) == \A j \in Slots \ {k} : pc[j] \notin {"l65", "l71"}

\* Lines 65-66, 71-72: open and read take no lock and wait for no other
\* thread (each file is followed by a thread of its own, lines 107-111).
CanRead(k) == TRUE

\* Faulty variant: the handle opened for a snapshot is kept.
InWithKeepsOpen(p) == p \notin {"l93", "l95", "raised"}

\* Lines 65-66, 71-89: the statements inside a `with open(...) as file:`
\* block once the read has been done; the file is closed on leaving the
\* block, normally or by an exception.
InWith(p) == p \in {"l81", "l83", "l86", "l88"}

\* What main printed of file f in print_lines_from_files.
StaticText(f) ==
    LET evs == SelectSeq(written[0], LAMBDA e : e.kind = "lines" /\ e.file = f)
    IN evs[1].text

\* Faulty variant: the initial snapshot is what main read for the static print.
InitialSourceStatic(k) == [st |-> "ok", data |-> StaticText(file_name(k))]

\* Line 65: the thread opens the file itself, when it gets to run.
InitialSource(k) == fs[file_name(k)]

\* Lines 65-66: the initial snapshot.
InitialRead(k) ==
    /\ Alive
    /\ pc[k] = "l65"
    /\ CanRead(k)
    /\ LET r == InitialSource(k)
       IN IF r.st = "ok"
          THEN /\ previous_content' = [previous_content EXCEPT ![k] = FirstSnapshot(r.data)]
               /\ pc' = [pc EXCEPT ![k] = "l71"]
               /\ h_slept' = [h_slept EXCEPT ![k] = FALSE]
               /\ h_run' = [h_run EXCEPT ![k] = [init |-> r.data, clean |-> TRUE]]
               /\ UNCHANGED h_cause
          ELSE /\ pc' = [pc EXCEPT ![k] = ExceptHandler(r.st)]
               /\ h_cause' = [h_cause EXCEPT ![k] = r.st]
               /\ UNCHANGED <<previous_content, h_slept, h_run>>
    /\ file_open' = [file_open EXCEPT ![k] = InWith(pc'[k])]
    /\ h_file' = [h_file EXCEPT ![k] = "same"]
    /\ UNCHANGED <<args, fs, env_steps, h_touched, mainVars, next_content, print_index,
                   has_errors, outVars, h_prev, h_mark, h_after>>

\* Lines 71-83: one poll: re-open, read, compare, classify.
PollRead(k) ==
    /\ Alive
    /\ pc[k] = "l71"
    /\ CanRead(k)
    /\ LET r == fs[file_name(k)]
           P == previous_content[k]
       IN IF r.st = "ok"
          THEN /\ next_content' = [next_content EXCEPT ![k] = r.data]
               /\ print_index' = [print_index EXCEPT ![k] =
                                     IF P # r.data THEN PrintIndex(P, r.data) ELSE @]
               /\ pc' = [pc EXCEPT ![k] = AfterCompare(P, r.data)]
               /\ h_prev' = [h_prev EXCEPT ![k] = P]
               /\ h_mark' = [h_mark EXCEPT ![k] = Len(written[k])]
               /\ h_after' = [h_after EXCEPT ![k] = \E j \in Slots \ {k} : pc[j] = "done"]
               /\ h_slept' = [h_slept EXCEPT ![k] = FALSE]
               /\ h_run' = [h_run EXCEPT ![k].clean = @ /\ StartsWith(r.data, P)]
               /\ UNCHANGED h_cause
          ELSE /\ pc' = [pc EXCEPT ![k] = ExceptHandler(r.st)]
               /\ h_cause' = [h_cause EXCEPT ![k] = r.st]
               /\ UNCHANGED <<next_content, print_index, h_prev, h_mark, h_run, h_after,
                              h_slept>>
    /\ file_open' = [file_open EXCEPT ![k] = InWith(pc'[k])]
    /\ h_file' = [h_file EXCEPT ![k] =
                      IF /\ @ = "changed"
                         /\ fs[file_name(k)] = [st |-> "ok", data |-> previous_content[k]]
                      THEN "restored" ELSE "same"]
    /\ UNCHANGED <<args, fs, env_steps, h_touched, mainVars, previous_content, has_errors,
                   outVars>>

\* Line 81: print_error_message("data deleted in: ...")
WarnDeleted(k) ==
    /\ Alive
    /\ pc[k] = "l81"
    /\ has_errors' = SetHasErrors
    /\ Write(k, <<ErrorEvent(k, file_name(k), "data deleted in")>>)
    /\ pc' = [pc EXCEPT ![k] = HeaderOrPayload]
    /\ UNCHANGED <<args, fs, env_steps, h_touched, h_file, mainVars, previous_content, next_content,
                   print_index, h_prev, h_mark, h_run, h_cause, h_after,
                   h_slept, file_open>>

\* Line 83: print_error_message("data modified in: ...")
WarnModified(k) ==
    /\ Alive
    /\ pc[k] = "l83"
    /\ has_errors' = SetHasErrors
    /\ Write(k, <<ErrorEvent(k, file_name(k), "data modified in")>>)
    /\ pc' = [pc EXCEPT ![k] = HeaderOrPayload]
    /\ UNCHANGED <<args, fs, env_steps, h_touched, h_file, mainVars, previous_content, next_content,
                   print_index, h_prev, h_mark, h_run, h_cause, h_after,
                   h_slept, file_open>>

\* Line 86: print_file_header(file_name)
FollowHeader(k) ==
    /\ Alive
    /\ pc[k] = "l86"
    /\ Write(k, HeaderEvents(k, file_name(k)))
    /\ pc' = [pc EXCEPT ![k] = "l88"]
    /\ UNCHANGED <<args, fs, env_steps, h_touched, h_file, mainVars, previous_content, next_content,
                   print_index, has_errors, h_prev, h_mark, h_run, h_cause, h_after,
                   h_slept, file_open>>

\* Faulty variant: the stored snapshot is never replaced.
NextSnapshotKeep(prev, next) == prev

\* Line 89: previous_content = next_content
NextSnapshot(prev, next) == next

\* Lines 88-89: print the payload, store the new snapshot.
Payload(k) ==
    /\ Alive
    /\ pc[k] = "l88"
    /\ Write(k, <<Event("stdout", k, file_name(k), "payload",
                         Slice(next_content[k], print_index[k]))>>)
    /\ previous_content' = [previous_content EXCEPT ![k] =
                                NextSnapshot(@, next_content[k])]
    /\ pc' = [pc EXCEPT ![k] = "l91"]
    /\ file_open' = [file_open EXCEPT ![k] = InWith(pc'[k])]
    /\ UNCHANGED <<args, fs, env_steps, h_touched, h_file, mainVars, next_content, print_index,
                   has_errors, h_prev, h_mark, h_run, h_cause, h_after, h_slept>>

\* Faulty variant: the loop body runs once and follow_file returns.
AfterSleepReturn == "done"

\* Lines 69, 91: `while True`: after the sleep the loop starts over at line 71.
AfterSleep == "l71"

\* Line 91: time.sleep(polling_interval)
Sleep(k) ==
    /\ Alive
    /\ pc[k] = "l91"
    /\ pc' = [pc EXCEPT ![k] = AfterSleep]
    /\ h_slept' = [h_slept EXCEPT ![k] = TRUE]
    /\ UNCHANGED <<args, fs, env_steps, h_touched, h_file, mainVars, previous_content, next_content,
                   print_index, has_errors, outVars, h_prev, h_mark, h_run, h_cause, h_after,
                   file_open>>

\* Lines 92-93: except FileNotFoundError
HandleDeleted(k) ==
    /\ Alive
    /\ pc[k] = "l93"
    /\ has_errors' = SetHasErrors
    /\ Write(k, <<ErrorEvent(k, file_name(k), "has been deleted")>>)
    /\ pc' = [pc EXCEPT ![k] = AfterHandler]
    /\ UNCHANGED <<args, fs, env_steps, h_touched, h_file, mainVars, previous_content, next_content,
                   print_index, h_prev, h_mark, h_run, h_cause, h_after,
                   h_slept, file_open>>

\* Lines 94-95: except (OSError, UnicodeDecodeError)
HandleInaccessible(k) ==
    /\ Alive
    /\ pc[k] = "l95"
    /\ has_errors' = SetHasErrors
    /\ Write(k, <<ErrorEvent(k, file_name(k), "is no longer accessible")>>)
    /\ pc' = [pc EXCEPT ![k] = AfterHandler]
    /\ UNCHANGED <<args, fs, env_steps, h_touched, h_file, mainVars, previous_content, next_content,
                   print_index, h_prev, h_mark, h_run, h_cause, h_after,
                   h_slept, file_open>>

\* ------------------------------------------------------------------- main
\* Lines 252-270: one iteration of print_lines_from_files' loop.
StaticOutput(f) ==
    LET r == fs[f]
    IN CASE r.st = "isdir" -> <<ErrorEvent(0, f, "is a directory")>>
         [] r.st = "ok" -> HeaderEvents(0, f)
                           \o <<Event("stdout", 0, f, "lines", print_lines(readlines(r.data)))>>
         [] r.st = "missing" -> <<ErrorEvent(0, f, "no such file or directory")>>
         [] r.st = "denied" -> <<ErrorEvent(0, f, "permission denied")>>
         [] r.st = "ioerror" -> HeaderEvents(0, f) \o <<ErrorEvent(0, f, "unable to read file")>>
         [] r.st = "undecodable" -> HeaderEvents(0, f) \o <<ErrorEvent(0, f, "unable to decode file")>>

PrintLinesFromFile ==
    /\ mainpc = "print"
    /\ idx <= Len(args.files)
    /\ LET f == args.files[idx]
       IN /\ Write(0, StaticOutput(f))
          /\ files_printed' = IF fs[f].st = "ok" THEN Append(files_printed, f)
                              ELSE files_printed
          /\ has_errors' = IF fs[f].st # "ok" THEN SetHasErrors ELSE has_errors
    /\ idx' = idx + 1
    /\ UNCHANGED <<args, fs, env_steps, h_touched, h_file, mainpc, print_file_name, exit_code, threadVars>>

\* Faulty variant: the decision is taken on the paths of the command line.
PrintFileNameByArgs(files) == Len(args.files) > 1

\* Faulty variant: the file name is printed for a single file too.
PrintFileNameAlways(files) == Len(files) >= 1

\* Line 104: print_file_name = len(files) > 1
PrintFileName(files) == Len(files) > 1

\* Lines 151, 104-105: --follow with files printed.
FollowFiles ==
    /\ mainpc = "print"
    /\ idx > Len(args.files)
    /\ args.follow /\ files_printed # <<>>
    /\ print_file_name' = PrintFileName(files_printed)
    /\ mainpc' = "start"
    /\ idx' = 1
    /\ UNCHANGED <<args, fs, env_steps, h_touched, h_file, files_printed, exit_code, threadVars,
                   has_errors, outVars>>

\* Line 151: nothing to follow, main returns.
NoFollow ==
    /\ mainpc = "print"
    /\ idx > Len(args.files)
    /\ ~(args.follow /\ files_printed # <<>>)
    /\ mainpc' = "returned"
    /\ UNCHANGED <<args, fs, env_steps, h_touched, h_file, idx, files_printed, print_file_name,
                   exit_code, threadVars, has_errors, outVars>>

\* Faulty variant: the loop of follow_files stops one file early.
StartThreadSkipsLast ==
    /\ mainpc = "start"
    /\ pc[idx] = "unstarted"
    /\ pc' = [pc EXCEPT ![idx] = "l65"]
    /\ IF idx + 1 < Len(files_printed)
       THEN idx' = idx + 1 /\ UNCHANGED mainpc
       ELSE idx' = 1 /\ mainpc' = "join"
    /\ UNCHANGED <<args, fs, env_steps, h_touched, h_file, files_printed, print_file_name, exit_code,
                   previous_content, next_content, print_index, has_errors, outVars,
                   h_prev, h_mark, h_run, h_cause, h_after,
                   h_slept, file_open>>

\* Lines 107-111: start the next thread.
StartThread ==
    /\ mainpc = "start"
    /\ pc[idx] = "unstarted"
    /\ pc' = [pc EXCEPT ![idx] = "l65"]
    /\ IF idx < Len(files_printed)
       THEN idx' = idx + 1 /\ UNCHANGED mainpc
       ELSE idx' = 1 /\ mainpc' = "join"
    /\ UNCHANGED <<args, fs, env_steps, h_touched, h_file, files_printed, print_file_name, exit_code,
                   previous_content, next_content, print_index, has_errors, outVars,
                   h_prev, h_mark, h_run, h_cause, h_after,
                   h_slept, file_open>>

\* Faulty variant: join with a timeout returns whether or not the thread ended.
JoinedTimeout(k) == TRUE

\* Line 153: thread.join() returns once the thread has finished.
Joined(k) == pc[k] = "done"

\* Lines 152-153: join the next thread.
Join ==
    /\ mainpc = "join"
    /\ Joined(idx)
    /\ IF idx < Len(files_printed)
       THEN idx' = idx + 1 /\ UNCHANGED mainpc
       ELSE idx' = 1 /\ mainpc' = "returned"
    /\ UNCHANGED <<args, fs, env_steps, h_touched, h_file, files_printed, print_file_name, exit_code,
                   threadVars, has_errors, outVars>>

\* Lines 315-316: Ctrl-C raises KeyboardInterrupt in the main thread.
Interrupt ==
    /\ mainpc \in {"print", "start", "join"}
    /\ mainpc' = "interrupted"
    /\ Write(0, <<Event("stdout", 0, 0, "newline", <<NL>>)>>)
    /\ UNCHANGED <<args, fs, env_steps, h_touched, h_file, idx, files_printed, print_file_name,
                   exit_code, threadVars, has_errors>>

\* Faulty variant: non-daemon threads, which the interpreter waits for.
DaemonOff == FALSE

\* Line 109: thread.daemon = True, so the interpreter ends without waiting
\* for the threads and they stop wherever they are.
Daemon == TRUE

\* Faulty variant: the test of Program.has_errors is missing.
ExitStatusZero(errors) == 0

\* Lines 311-314: main() returned; SystemExit(ERROR) when has_errors is set.
ExitStatus(errors) == IF errors THEN ERROR ELSE 0

\* Lines 313-317: the process exits; its daemon threads end with it.
Exit ==
    /\ mainpc \in {"returned", "interrupted"}
    /\ Daemon \/ \A k \in Slots : pc[k] \in {"unstarted", "done"}
    /\ exit_code' = IF mainpc = "interrupted" THEN KEYBOARD_INTERRUPT
                    ELSE ExitStatus(has_errors)
    /\ mainpc' = "exited"
    /\ pc' = [k \in Slots |-> IF pc[k] \in {"unstarted", "done"} THEN pc[k] ELSE "killed"]
    /\ file_open' = [k \in Slots |-> FALSE]
    /\ h_slept' = [k \in Slots |-> FALSE]
    /\ h_file' = [k \in Slots |-> "same"]
    /\ UNCHANGED <<args, fs, env_steps, h_touched, idx, files_printed, print_file_name,
                   previous_content, next_content, print_index, has_errors, outVars,
                   h_prev, h_mark, h_run, h_cause, h_after>>

\* The paths given on the command line: the only ones the program looks at.
Given == {args.files[i] : i \in 1..Len(args.files)}

Environment ==
    \/ \E f \in Given, c \in Contents : ExternalWrite(f, c)
    \/ \E f \in Given, s \in FailStatuses : ExternalBreak(f, s)

Thread(k) ==
    \/ InitialRead(k)
    \/ PollRead(k)
    \/ WarnDeleted(k)
    \/ WarnModified(k)
    \/ FollowHeader(k)
    \/ Payload(k)
    \/ Sleep(k)
    \/ HandleDeleted(k)
    \/ HandleInaccessible(k)

Main ==
    \/ PrintLinesFromFile
    \/ FollowFiles
    \/ NoFollow
    \/ StartThread
    \/ Join
    \/ Interrupt
    \/ Exit

Next ==
    \/ Environment
    \/ \E k \in Slots : Thread(k)
    \/ Main

Spec == Init /\ [][Next]_vars

\* The main thread is not starved: once it can leave (lines 313-317), it does.
\* The program run on empty files.
SpecEmptyFiles == InitEmptyFiles /\ [][Next]_vars

LiveMain == Spec /\ WF_vars(Exit)

\* Every thread and the main thread keep being scheduled: a thread whose read
\* failed runs its handler and returns, join returns, the process exits.
LiveAll ==
    /\ Spec
    /\ \A k \in Slots : WF_vars(Thread(k))
    /\ WF_vars(Join)
    /\ WF_vars(Exit)

\* The first thread keeps being scheduled; nothing is assumed of the others.
LiveFirst == InitWithHeaders /\ [][Next]_vars /\ WF_vars(Thread(1))

\* The second thread keeps being scheduled; nothing is assumed of the first
\* thread, whose read may take for ever, nor of the main thread.
LiveSecond == InitWithHeaders /\ [][Next]_vars /\ WF_vars(Thread(2))

\* ----------------------------------------------------------------- claims
\* Thread k has made a poll read that succeeded.
Polled(k) == h_prev[k] # Unbound

\* Thread k is between a successful poll read and its next read; h_prev[k]
\* and next_content[k] are the contents P and N that poll compared.
InPoll(k) == Polled(k) /\ pc[k] \in {"l81", "l83", "l86", "l88", "l91", "l71"}

\* The poll of thread k has finished all its writes.
PollDone(k) == Polled(k) /\ pc[k] \in {"l91", "l71"}

\* The write calls of thread k since its last successful poll read.
Since(k) == SubSeq(written[k], h_mark[k] + 1, Len(written[k]))

IsStderr(e) == e.ch = "stderr"
IsPayload(e) == e.kind = "payload"
IsWarning(e) == e.kind \in {"data deleted in", "data modified in"}
IsTerminal(e) == e.kind \in {"has been deleted", "is no longer accessible"}

PayloadOf(k, text) == Event("stdout", k, file_name(k), "payload", text)

\* C1: a poll whose new content N starts with the previous content P and
\* differs from it is an append: the thread writes no warning, and the one
\* payload it writes on standard output is exactly N[len(P):].
C1_AppendEmitsSuffix ==
    \A k \in Slots :
        (InPoll(k) /\ StartsWith(next_content[k], h_prev[k])
                   /\ next_content[k] # h_prev[k]) =>
            /\ pc[k] \notin {"l81", "l83"}
            /\ SelectSeq(Since(k), IsStderr) = <<>>
            /\ SelectSeq(Since(k), IsPayload) =
                   IF PollDone(k)
                   THEN <<PayloadOf(k, SubSeq(next_content[k], Len(h_prev[k]) + 1,
                                               Len(next_content[k])))>>
                   ELSE <<>>

C1_Witness ==
    \E k \in Slots :
        /\ pc[k] = "l91" /\ Polled(k)
        /\ h_prev[k] = <<"a">> /\ next_content[k] = <<"a", NL>>
        /\ Since(k) # <<>>

\* C2: a poll whose new content equals the stored previous content writes
\* nothing at all: no header, no payload, no warning.
C2_UnchangedIsSilent ==
    \A k \in Slots :
        (InPoll(k) /\ next_content[k] = h_prev[k]) =>
            /\ pc[k] \in {"l91", "l71"}
            /\ Since(k) = <<>>
            /\ previous_content[k] = h_prev[k]

C2_Witness ==
    \E k \in Slots :
        /\ pc[k] = "l91" /\ Polled(k)
        /\ next_content[k] = h_prev[k]
        /\ written[k] # <<>>

\* C3: a poll whose new content is shorter than the previous content is a
\* truncation, whether or not N is a prefix of P: the warning is "data
\* deleted in", never "data modified in", and the payload is not a suffix.
C3_ShorterIsTruncation ==
    \A k \in Slots :
        (InPoll(k) /\ Len(next_content[k]) < Len(h_prev[k])) =>
            /\ pc[k] # "l83"
            /\ print_index[k] = 0
            /\ SelectSeq(Since(k), IsStderr) =
                   IF pc[k] = "l81" THEN <<>>
                   ELSE <<ErrorEvent(k, file_name(k), "data deleted in")>>

C3_Witness ==
    \E k \in Slots :
        /\ pc[k] = "l91" /\ Polled(k)
        /\ h_prev[k] = <<"a", "a">> /\ next_content[k] = <<NL>>
        /\ Since(k) # <<>>

\* C4: a poll whose new content does not start with the previous content and
\* is at least as long is a modification: the warning is "data modified in",
\* never "data deleted in", and it is not treated as an append.
C4_NotShorterIsModification ==
    \A k \in Slots :
        (InPoll(k) /\ ~StartsWith(next_content[k], h_prev[k])
                   /\ Len(next_content[k]) >= Len(h_prev[k])) =>
            /\ pc[k] # "l81"
            /\ print_index[k] = 0
            /\ SelectSeq(Since(k), IsStderr) =
                   IF pc[k] = "l83" THEN <<>>
                   ELSE <<ErrorEvent(k, file_name(k), "data modified in")>>

C4_Witness ==
    \E k \in Slots :
        /\ pc[k] = "l91" /\ Polled(k)
        /\ h_prev[k] = <<"a">> /\ next_content[k] = <<NL>>
        /\ Since(k) # <<>>

\* C5: in a poll that detects truncation or modification the thread's first
\* write is the one warning, on standard error and naming the file; every
\* later write of the poll is on standard output, and the payload is the
\* whole new content N.
C5_WarningThenFullContent ==
    \A k \in Slots :
        (InPoll(k) /\ next_content[k] # h_prev[k]
                   /\ ~StartsWith(next_content[k], h_prev[k])) =>
            LET ev == Since(k)
            IN /\ pc[k] \in {"l81", "l83"} => ev = <<>>
               /\ pc[k] \notin {"l81", "l83"} =>
                      /\ ev # <<>>
                      /\ IsStderr(ev[1]) /\ IsWarning(ev[1])
                      /\ ev[1].file = file_name(k)
                      /\ \A i \in 2..Len(ev) : IsStdout(ev[i])
               /\ SelectSeq(ev, IsPayload) =
                      IF PollDone(k) THEN <<PayloadOf(k, next_content[k])>> ELSE <<>>
               /\ PollDone(k) => IsPayload(ev[Len(ev)])

C5_Witness ==
    \E k \in Slots :
        /\ pc[k] = "l91" /\ Polled(k)
        /\ h_prev[k] = <<"a", NL>> /\ next_content[k] = <<"a">>
        /\ Len(Since(k)) = 3

\* C6: the initial snapshot is never emitted: until a thread has completed its
\* initial read it has written nothing, and the step that completes the read
\* writes nothing and stores the content read as previous_content.
C6_InitialSnapshotSilent ==
    /\ [](\A k \in Slots :
            (pc[k] \in {"unstarted", "l65"} \/ (pc[k] = "l71" /\ ~Polled(k)))
                => written[k] = <<>>)
    /\ [][\A k \in Slots :
            (pc[k] = "l65" /\ pc'[k] = "l71") =>
                /\ previous_content'[k] = fs[file_name(k)].data
                /\ written' = written
                /\ stdout_last' = stdout_last]_vars

C6_Witness ==
    \E k \in Slots :
        /\ pc[k] = "l71" /\ ~Polled(k)
        /\ previous_content[k] = <<"a", NL>>
        /\ written[k] = <<>>

\* The message the handlers print for a read that failed on a path in state st.
TerminalKind(st) ==
    IF st = "missing" THEN "has been deleted" ELSE "is no longer accessible"

\* Thread k's initial read failed.
InitFailed(k) == previous_content[k] = Unbound /\ h_cause[k] # NoCause

\* C7: a thread whose initial read fails makes no poll and writes nothing on
\* standard output; it goes to its handler, reports the error once and is
\* finished.
C7_InitialFailureTerminates ==
    \A k \in Slots :
        InitFailed(k) =>
            /\ ~Polled(k)
            /\ next_content[k] = Unbound
            /\ pc[k] \in {"l93", "l95", "done", "killed"}
            /\ written[k] = IF pc[k] = "done"
                            THEN <<ErrorEvent(k, file_name(k), TerminalKind(h_cause[k]))>>
                            ELSE <<>>

C7_Witness ==
    \E k \in Slots :
        /\ InitFailed(k) /\ pc[k] = "done"
        /\ h_cause[k] = "denied"
        /\ Len(written[k]) = 1

\* C8: a read failure is caught inside the thread and reported exactly once:
\* a missing file gives only "has been deleted", any other OS error or a
\* decoding failure gives only "is no longer accessible"; no exception leaves
\* follow_file.
C8_TerminalErrorReportedOnce ==
    \A k \in Slots :
        /\ pc[k] # "raised"
        /\ pc[k] = "l93" => h_cause[k] = "missing"
        /\ pc[k] = "l95" => h_cause[k] \in FailStatuses \ {"missing"}
        /\ pc[k] = "done" => h_cause[k] \in FailStatuses
        /\ SelectSeq(written[k], IsTerminal) =
               IF pc[k] = "done"
               THEN <<ErrorEvent(k, file_name(k), TerminalKind(h_cause[k]))>>
               ELSE <<>>

C8_Witness ==
    \E k \in Slots :
        /\ pc[k] = "done" /\ Polled(k)
        /\ h_cause[k] = "undecodable"
        /\ SelectSeq(written[k], IsTerminal) =
               <<ErrorEvent(k, file_name(k), "is no longer accessible")>>

\* C9: a thread leaves its loop only when a read of its own file fails; the
\* step that finishes one thread changes nothing of any other thread; every
\* other thread that is still in its loop can take its next step; and main
\* does not return from the join loop while a thread is still running.
C9_OthersKeepRunning ==
    /\ [](mainpc = "returned" /\ files_printed # <<>>
            => \A k \in 1..Len(files_printed) : pc[k] = "done")
    /\ [](\A j \in Slots :
            (Alive /\ pc[j] \in {"l65", "l71", "l81", "l83", "l86", "l88", "l91"})
                => ENABLED Thread(j))
    /\ [][\A k \in Slots :
            (pc[k] \notin {"l93", "l95"} /\ pc'[k] \in {"l93", "l95"})
                => fs[file_name(k)].st # "ok"]_vars
    /\ [][\A k \in Slots : \A j \in Slots \ {k} :
            (pc[k] # "done" /\ pc'[k] = "done") =>
                /\ pc'[j] = pc[j]
                /\ previous_content'[j] = previous_content[j]
                /\ written'[j] = written[j]]_vars

C9_Witness ==
    \E k \in Slots : \E j \in Slots \ {k} :
        /\ pc[k] = "done" /\ Polled(k) /\ h_cause[k] = "missing"
        /\ pc[j] = "l91" /\ Polled(j) /\ h_after[j]
        /\ SelectSeq(Since(j), IsPayload) # <<>>
        /\ mainpc = "join"

\* C10: a finished thread stays finished: it changes none of its variables
\* and writes nothing more, whatever happens to its file; threads are only
\* ever started by follow_files, once each, one per printed file.
C10_TerminatedIsAbsorbing ==
    /\ [][\A k \in Slots :
            pc[k] = "done" =>
                /\ pc'[k] = "done"
                /\ written'[k] = written[k]
                /\ previous_content'[k] = previous_content[k]
                /\ next_content'[k] = next_content[k]]_vars
    /\ [][\A k \in Slots :
            (pc'[k] = "l65" /\ pc[k] # "l65") =>
                (pc[k] = "unstarted" /\ mainpc = "start")]_vars
    /\ [][mainpc # "print" => files_printed' = files_printed]_vars
    /\ [](\A k \in Slots : pc[k] # "unstarted" => k <= Len(files_printed))

C10_Witness ==
    \E k \in Slots :
        /\ pc[k] = "done" /\ h_cause[k] = "missing"
        /\ fs[file_name(k)].st = "ok"
        /\ mainpc = "join"

\* C11: follow_files starts exactly one thread per printed file, each on its
\* own path, and only there; without Ctrl-C, main leaves the join loop, and
\* the process ends normally, only when every thread has finished.
C11_OneThreadPerTargetJoined ==
    /\ [](mainpc \in {"join", "returned"} =>
            /\ \A k \in Slots : (pc[k] # "unstarted") <=> (k <= Len(files_printed))
            /\ \A k \in 1..Len(files_printed) : \A j \in 1..Len(files_printed) :
                   file_name(k) = file_name(j) => k = j)
    /\ []((mainpc = "returned" \/ (mainpc = "exited" /\ exit_code # KEYBOARD_INTERRUPT))
            => \A k \in 1..Len(files_printed) :
                   pc[k] = "done" /\ SelectSeq(written[k], IsTerminal) # <<>>)
    /\ [][\A k \in Slots :
            (pc[k] = "unstarted" /\ pc'[k] # "unstarted") =>
                (mainpc = "start" /\ idx = k /\ pc'[k] = "l65")]_vars

C11_Witness ==
    /\ mainpc = "returned"
    /\ Len(files_printed) = 2
    /\ \A k \in Slots : pc[k] = "done" /\ Polled(k)

IsHeader(e) == e.kind \in {"header", "header (following)"}

\* Thread k's last poll found a change and has finished its writes.
Emitted(k) == PollDone(k) /\ next_content[k] # h_prev[k]

\* C12 as stated: with more than one file followed, every emission of a
\* thread has a header for the thread's file before its payload; with one
\* file followed no thread writes a header.
C12_HeaderWheneverSeveral ==
    \A k \in Slots :
        /\ (Emitted(k) /\ Len(files_printed) > 1) =>
               \E i \in 1..Len(Since(k)) :
                   /\ IsHeader(Since(k)[i])
                   /\ Since(k)[i].file = file_name(k)
                   /\ \E j \in (i + 1)..Len(Since(k)) : IsPayload(Since(k)[j])
        /\ Len(files_printed) = 1 => SelectSeq(written[k], IsHeader) = <<>>

\* C12, amended: with more than one file followed and --no-file-header not
\* given, the write a thread makes just before each payload is the header
\* for its own file, once per emission; with one file followed, or with
\* --no-file-header, no thread writes a header.
C12_HeaderUnlessSuppressed ==
    \A k \in Slots :
        /\ Emitted(k) =>
               LET ev == Since(k)
                   n == Len(ev)
               IN IF Len(files_printed) > 1 /\ ~args.no_file_header
                  THEN /\ n >= 2
                       /\ IsPayload(ev[n])
                       /\ ev[n - 1] = Event("stdout", k, file_name(k),
                                            "header (following)", <<>>)
                       /\ Len(SelectSeq(ev, IsHeader)) = 1
                  ELSE SelectSeq(ev, IsHeader) = <<>>
        /\ (Len(files_printed) <= 1 \/ args.no_file_header)
               => SelectSeq(written[k], IsHeader) = <<>>

C12_Witness ==
    \E k \in Slots :
        /\ Emitted(k) /\ pc[k] = "l91"
        /\ Len(files_printed) = 2 /\ ~args.no_file_header
        /\ Len(Since(k)) = 2
        /\ IsHeader(Since(k)[1]) /\ IsPayload(Since(k)[2])

\* Thread k has written the header of an emission and not yet its payload.
HeaderPending(k) ==
    /\ pc[k] = "l88" /\ Polled(k)
    /\ Since(k) # <<>>
    /\ IsHeader(Since(k)[Len(Since(k))])

\* C13: emissions are serialized: no two threads are between header and
\* payload at once, and while a thread is between its header and its payload
\* the latest write on standard output is not another thread's.
C13_EmissionsSerialized ==
    \A k \in Slots :
        HeaderPending(k) =>
            /\ \A j \in Slots \ {k} : ~HeaderPending(j)
            /\ stdout_last.by \notin Slots \ {k}

Stopped(k) == pc[k] \in {"unstarted", "done", "killed"}

\* C14: once KeyboardInterrupt has been raised in the main thread, the
\* process eventually exits and every thread has stopped, whatever the
\* threads were doing.
C14_InterruptStopsAll ==
    (mainpc = "interrupted") ~> (mainpc = "exited" /\ \A k \in Slots : Stopped(k))

C14_Witness ==
    /\ mainpc = "exited" /\ exit_code = KEYBOARD_INTERRUPT
    /\ pc[1] = "killed" /\ pc[2] = "killed"
    /\ written[1] # <<>>

\* C15: once cancellation has been signalled (KeyboardInterrupt raised in the
\* main thread), no thread opens its file for another poll and no thread
\* writes anything.
C15_NoPollAfterCancel ==
    [][mainpc = "interrupted" =>
          \A k \in Slots :
              /\ written'[k] = written[k]
              /\ pc[k] = "l71" => pc'[k] \in {"l71", "killed"}]_vars

\* C16: the threads share no snapshot: a thread's new content is read from
\* its own file and compared with its own previous content, which is only
\* ever replaced by its own initial read or its own new content; so a thread
\* whose file no other process has changed writes nothing and stays polling
\* (until the process ends), whatever happens to the other files.
C16_NoSharedSnapshot ==
    /\ [](\A k \in 1..Len(files_printed) :
             (pc[k] # "unstarted" /\ files_printed[k] \notin h_touched) =>
                 /\ written[k] = <<>>
                 /\ pc[k] \in {"l65", "l71", "l91", "killed"}
                 /\ previous_content[k] \in {Unbound, InitialContent})
    /\ [][\A k \in Slots :
            /\ next_content'[k] # next_content[k] =>
                   /\ next_content'[k] = fs[files_printed[k]].data
                   /\ h_prev'[k] = previous_content[k]
            /\ previous_content'[k] # previous_content[k] =>
                   \/ pc[k] = "l65" /\ previous_content'[k] = fs[files_printed[k]].data
                   \/ pc[k] = "l88" /\ previous_content'[k] = next_content[k]]_vars

C16_Witness ==
    /\ Len(files_printed) = 2
    /\ files_printed[2] \notin h_touched
    /\ SelectSeq(written[1], IsPayload) # <<>>
    /\ Polled(2) /\ pc[2] = "l91" /\ written[2] = <<>>

\* The file of thread k is readable and holds content c.
Holds(k, c) ==
    /\ k <= Len(files_printed)
    /\ fs[files_printed[k]] = [st |-> "ok", data |-> c]

\* C17: while the first thread is in a read (its initial one or a poll's),
\* however long that read takes, the second thread goes on: if its file holds
\* content c that differs from its stored snapshot, then the second thread
\* comes to print a payload and store c, unless the file is changed again or
\* the process ends first.
C17_SlowReadDoesNotBlock ==
    \A c \in Contents :
        (/\ pc[1] \in {"l65", "l71"}
         /\ pc[2] \in {"l71", "l81", "l83", "l86", "l88", "l91"}
         /\ Holds(2, c)
         /\ previous_content[2] # c)
        ~> (\/ /\ previous_content[2] = c
               /\ written[2] # <<>>
               /\ IsPayload(written[2][Len(written[2])])
            \/ pc[2] = "killed"
            \/ ~Holds(2, c))

C17_Witness ==
    /\ pc[1] = "l65"
    /\ Emitted(2) /\ pc[2] = "l91"
    /\ previous_content[2] = fs[files_printed[2]].data
    /\ IsPayload(written[2][Len(written[2])])

\* C18: when any thread has taken its first polling snapshot, every followed
\* file has had its initial snapshot attempted (no thread is still unstarted
\* or before its initial read), and a thread that has not taken its initial
\* snapshot has printed nothing.
C18_AllInitialBeforeAnyPoll ==
    /\ (\E k \in Slots : Polled(k)) =>
           \A j \in 1..Len(files_printed) : pc[j] \notin {"unstarted", "l65"}
    /\ \A j \in Slots : pc[j] \in {"unstarted", "l65"} => written[j] = <<>>

Running(k) == pc[k] \notin {"unstarted", "done", "killed"}

\* C19: Program.has_errors is TRUE once any thread has printed a terminal
\* error, and no step ever sets it back to FALSE; recording it waits on
\* nothing: a thread that has not finished can always take its next step
\* while the process runs, whatever the other threads have recorded.
C19_ErrorRecordSticky ==
    /\ [](\A k \in Slots : SelectSeq(written[k], IsTerminal) # <<>> => has_errors)
    /\ [][has_errors => has_errors']_vars
    /\ [](\A k \in Slots : (Alive /\ Running(k)) => ENABLED Thread(k))

C19_Witness ==
    /\ pc[1] = "done" /\ SelectSeq(written[1], IsTerminal) # <<>>
    /\ has_errors
    /\ h_after[2] /\ Emitted(2) /\ pc[2] = "l91"
    /\ SelectSeq(written[2], IsStderr) = <<>>

InLoopBody(k) == pc[k] \in {"l81", "l83", "l86", "l88"}

\* C20: a poll that found a change (append, truncation or modification) does
\* not end the thread: from the warning to the sleep the thread stays in the
\* loop, and when the poll's writes are done the stored snapshot is the new
\* content, which is what the next poll compares against.
C20_SnapshotReplaced ==
    /\ [](\A k \in Slots :
             (InPoll(k) /\ next_content[k] # h_prev[k]) =>
                 previous_content[k] = IF PollDone(k) THEN next_content[k]
                                       ELSE h_prev[k])
    /\ [][\A k \in Slots :
            /\ InLoopBody(k) => (InLoopBody(k))' \/ pc'[k] \in {"l91", "killed"}
            /\ pc[k] = "l91" => pc'[k] \in {"l91", "l71", "killed"}
            /\ (Polled(k) /\ pc[k] = "l71" /\ ((InLoopBody(k))' \/ pc'[k] = "l91")) =>
                   h_prev'[k] = next_content[k]]_vars

C20_Witness ==
    /\ Len(files_printed) = 1
    /\ pc[1] = "l91"
    /\ written[1] = <<ErrorEvent(1, file_name(1), "data modified in"),
                       PayloadOf(1, <<NL>>),
                       PayloadOf(1, <<"a">>)>>

\* Thread k takes a polling snapshot in this step: its read at line 72
\* succeeds.
PollSnapshot(k) == pc[k] = "l71" /\ ((InLoopBody(k))' \/ pc'[k] = "l91")

\* C21: every polling snapshot of a thread comes after a sleep of that thread
\* since its previous snapshot, the first polling snapshot after the initial
\* snapshot included.
C21_SleepBeforeEverySnapshot ==
    [][\A k \in Slots : PollSnapshot(k) => h_slept[k]]_vars

\* C22: a thread holds an open handle only inside the with block of a poll,
\* never while it sleeps or between polls; every snapshot opens the file
\* afresh and reads the whole content of the thread's own file.
C22_NoHandleBetweenPolls ==
    /\ [](\A k \in Slots : file_open[k] => pc[k] \in {"l81", "l83", "l86", "l88"})
    /\ [][\A k \in Slots :
            /\ PollSnapshot(k) =>
                   ~file_open[k] /\ next_content'[k] = fs[files_printed[k]].data
            /\ (pc[k] = "l65" /\ pc'[k] = "l71") =>
                   ~file_open[k] /\ previous_content'[k] = fs[files_printed[k]].data]_vars

C22_Witness ==
    \E k \in Slots :
        /\ pc[k] = "l91" /\ Emitted(k)
        /\ h_slept[k] = FALSE
        /\ ~file_open[k]
        /\ Len(written[k]) >= 2

\* The texts of the events evs, concatenated in order.
RECURSIVE ConcatTexts(_)
ConcatTexts(evs) ==
    IF evs = <<>> THEN <<>> ELSE Head(evs).text \o ConcatTexts(Tail(evs))

\* C23: while every change a thread has observed was an append, the payloads
\* it has printed, concatenated in order and put after its initial snapshot,
\* give exactly its stored snapshot, and it has printed no warning.
C23_AppendsConcatenate ==
    \A k \in Slots :
        (previous_content[k] # Unbound /\ h_run[k].clean) =>
            /\ h_run[k].init \o ConcatTexts(SelectSeq(written[k], IsPayload))
                   = previous_content[k]
            /\ SelectSeq(written[k], IsWarning) = <<>>

C23_Witness ==
    \E k \in Slots :
        /\ h_run[k].init = <<>> /\ h_run[k].clean
        /\ Len(SelectSeq(written[k], IsPayload)) = 2
        /\ previous_content[k] = <<"a", NL>>
        /\ pc[k] = "l91"

\* C24: if the file of a thread that is in its loop holds readable content c
\* that differs from the thread's stored snapshot, then, the thread being
\* scheduled fairly, its stored snapshot comes to equal c, unless the file is
\* changed again or the process ends first. (Stated for the first thread.)
C24_ChangeEventuallyEmitted ==
    \A c \in Contents :
        (/\ pc[1] \in {"l71", "l81", "l83", "l86", "l88", "l91"}
         /\ Holds(1, c)
         /\ previous_content[1] # c)
        ~> (\/ previous_content[1] = c /\ pc[1] = "l91"
            \/ pc[1] = "killed"
            \/ ~Holds(1, c))

C24_Witness ==
    /\ Emitted(1) /\ pc[1] = "l91"
    /\ h_slept[1] = FALSE
    /\ Holds(1, previous_content[1])
    /\ previous_content[1] # h_run[1].init
    /\ mainpc = "join"

\* Content was appended to the file of thread k between main's read for the
\* static print and the thread's initial snapshot.
AppendedInGap(k) ==
    /\ k <= Len(files_printed)
    /\ h_run[k].init # Unbound
    /\ h_run[k].init # StaticText(files_printed[k])
    /\ StartsWith(h_run[k].init, StaticText(files_printed[k]))

\* C25: the initial snapshot is the content of the file when the thread reads
\* it, not what main printed; content appended in between is part of it and
\* is not printed by the thread: while the stored snapshot is the initial one
\* the thread has printed no payload, and after appends only, its payloads
\* are what follows the initial snapshot.
C25_GapContentNotEmitted ==
    /\ [](\A k \in Slots :
             (AppendedInGap(k) /\ h_run[k].clean) =>
                 /\ previous_content[k] = h_run[k].init =>
                        SelectSeq(written[k], IsPayload) = <<>>
                 /\ ConcatTexts(SelectSeq(written[k], IsPayload)) =
                        SubSeq(previous_content[k], Len(h_run[k].init) + 1,
                               Len(previous_content[k])))
    /\ [][\A k \in Slots :
            (pc[k] = "l65" /\ pc'[k] = "l71") =>
                /\ h_run'[k].init = fs[files_printed[k]].data
                /\ previous_content'[k] = h_run'[k].init]_vars

C25_Witness ==
    \E k \in Slots :
        /\ AppendedInGap(k) /\ h_run[k].clean
        /\ StaticText(files_printed[k]) = <<>>
        /\ h_run[k].init = <<"a">>
        /\ Polled(k) /\ pc[k] = "l91"
        /\ previous_content[k] = <<"a", NL>>
        /\ SelectSeq(written[k], IsPayload) = <<PayloadOf(k, <<NL>>)>>

\* C26: a poll decides on the content it reads and nothing else: when the
\* file was changed after the thread's previous snapshot and holds the stored
\* content again at the poll, the poll goes straight to the sleep, writes
\* nothing (no header, payload or warning) and leaves the snapshot as it is.
C26_RestoredIsUnseen ==
    /\ [](\A k \in Slots :
             h_file[k] = "restored" =>
                 /\ pc[k] \in {"l91", "l71"}
                 /\ Since(k) = <<>>
                 /\ next_content[k] = h_prev[k]
                 /\ previous_content[k] = h_prev[k])
    /\ [][\A k \in Slots :
            (h_file[k] = "changed" /\ PollSnapshot(k)
                /\ fs[files_printed[k]].data = previous_content[k]) =>
                    /\ pc'[k] = "l91"
                    /\ written' = written
                    /\ has_errors' = has_errors]_vars

C26_Witness ==
    \E k \in Slots :
        /\ h_file[k] = "restored" /\ pc[k] = "l91"
        /\ env_steps = 2
        /\ written[k] = <<>>

\* main printed the lines of f in print_lines_from_files.
StaticallyPrinted(f) ==
    \E i \in 1..Len(written[0]) :
        written[0][i].kind = "lines" /\ written[0][i].file = f

\* main printed an error for f in print_lines_from_files.
StaticallyFailed(f) ==
    \E i \in 1..Len(written[0]) :
        IsStderr(written[0][i]) /\ written[0][i].file = f

\* C27: the followed files are the files main printed, in the order of the
\* command line; a file whose static print failed has no thread; with nothing
\* printed no thread is started; and print_file_name is decided by the number
\* of files printed, not by the number of paths given.
C27_FollowedAreThePrinted ==
    /\ files_printed = SelectSeq(args.files, StaticallyPrinted)
    /\ \A k \in Slots :
           pc[k] # "unstarted" =>
               /\ k <= Len(files_printed)
               /\ ~StaticallyFailed(files_printed[k])
               /\ print_file_name = (Len(files_printed) > 1)
    /\ (mainpc # "print" /\ files_printed = <<>>) =>
           /\ \A k \in Slots : pc[k] = "unstarted"
           /\ mainpc \in {"returned", "interrupted", "exited"}

C27_Witness ==
    /\ args.files = <<1, 2>> /\ ~args.no_file_header
    /\ StaticallyFailed(1)
    /\ files_printed = <<2>>
    /\ pc[1] = "l91" /\ Emitted(1) /\ pc[2] = "unstarted"
    /\ written[1] = <<PayloadOf(1, <<NL>>)>>
    /\ mainpc = "join"

Warned(k) == SelectSeq(written[k], IsWarning) # <<>>

\* C28: once a thread has printed "data deleted in" or "data modified in",
\* Program.has_errors is TRUE and stays so, as after a terminal error: the
\* step that prints the warning sets it, and a process that ends otherwise
\* than by Ctrl-C after a warning ends with the ERROR exit code.
C28_WarningsSetHasErrors ==
    /\ [](\A k \in Slots : Warned(k) => has_errors)
    /\ []((mainpc = "exited" /\ exit_code # KEYBOARD_INTERRUPT
               /\ \E k \in Slots : Warned(k)) => exit_code = ERROR)
    /\ [][\A k \in Slots :
            (pc[k] \in {"l81", "l83"} /\ pc'[k] \notin {"l81", "l83", "killed"}) =>
                /\ has_errors'
                /\ Len(written'[k]) = Len(written[k]) + 1
                /\ IsWarning(written'[k][Len(written'[k])])]_vars

C28_Witness ==
    \E k \in Slots :
        /\ Warned(k) /\ pc[k] = "l91"
        /\ has_errors
        /\ \A j \in {0} \cup Slots : SelectSeq(written[j], IsStderr)
                                       = SelectSeq(written[j], IsWarning)

\* C29: under --no-file-header no thread ever writes a header, however many
\* files are followed; a poll that found a change still writes its warning
\* (when the change is not an append) and its payload, and nothing else.
C29_NoHeaderOptionSilencesHeaders ==
    args.no_file_header =>
        \A k \in Slots :
            /\ SelectSeq(written[k], IsHeader) = <<>>
            /\ Emitted(k) =>
                   Since(k) =
                       (IF StartsWith(next_content[k], h_prev[k]) THEN <<>>
                        ELSE <<ErrorEvent(k, files_printed[k],
                                          IF Len(next_content[k]) < Len(h_prev[k])
                                          THEN "data deleted in"
                                          ELSE "data modified in")>>)
                       \o <<Event("stdout", k, files_printed[k], "payload",
                                   SubSeq(next_content[k], print_index[k] + 1,
                                          Len(next_content[k])))>>

C29_Witness ==
    \E k \in Slots :
        /\ args.no_file_header /\ print_file_name
        /\ Len(files_printed) = 2
        /\ Emitted(k) /\ pc[k] = "l71"
        /\ Len(Since(k)) = 2
        /\ IsWarning(Since(k)[1]) /\ IsPayload(Since(k)[2])

\* The read of thread k has failed: it is in a handler or has returned.
Hit(k) == pc[k] \in {"l93", "l95", "done"}

\* C30: when main is in the join loop and the read of every thread has
\* failed, then, unless Ctrl-C comes first, every thread returns, main leaves
\* the join loop and the process ends with exit code ERROR; and a process
\* that ends otherwise than by Ctrl-C after following has exit code ERROR,
\* all its threads having returned with has_errors set.
C30_AllFailedExitsWithError ==
    /\ (mainpc = "join" /\ \A k \in 1..Len(files_printed) : Hit(k))
          ~> (\/ /\ mainpc = "exited" /\ exit_code = ERROR
                 /\ \A k \in 1..Len(files_printed) : pc[k] = "done"
              \/ mainpc = "interrupted"
              \/ exit_code = KEYBOARD_INTERRUPT)
    /\ []((mainpc = "exited" /\ exit_code # KEYBOARD_INTERRUPT /\ files_printed # <<>>)
             => /\ exit_code = ERROR /\ has_errors
                /\ \A k \in 1..Len(files_printed) : pc[k] = "done")

C30_Witness ==
    /\ mainpc = "exited" /\ exit_code = ERROR
    /\ Len(files_printed) = 2
    /\ pc[1] = "done" /\ pc[2] = "done"
    /\ SelectSeq(written[0], IsStderr) = <<>>
    /\ \A k \in Slots : ~Warned(k)

====
